---- MODULE Spec2Model ----
(***************************************************************************)
(* A model of relay, a caching HTTP reverse proxy: the request handler of  *)
(* src/handlers.rs over the storage backends of src/storage.rs, the        *)
(* freshness tests of src/cache.rs and the rule lookup of src/config.rs.   *)
(* Durations and instants are whole clock ticks.                           *)
(***************************************************************************)
EXTENDS Integers, Sequences, FiniteSets, TLC

\* ------------------------------------------------------------------ bounds

\* The clock runs from 0 to MaxTime.
MaxTime == 2

\* At most MaxRequests requests are received in a run.
MaxRequests == 2

\* Configuration strings have at most MaxLen characters.
MaxLen == 3

\* The bits of the scaled machine word that stands for u64.
WordBits == 20

\* The requests of the metrics accounting scenario.
ScenarioRequests == 5

\* The concurrent handler tasks.
Handlers == {1, 2}

\* The responses the upstream answers with: a body and a status.
UpstreamResponses ==
    { [body |-> "X", status |-> 200], [body |-> "Y", status |-> 500] }

\* ---------------------------------------------------------------- options

\* Rust's Option: None is the empty sequence, Some(x) the one-element one.
None == <<>>
Some(x) == <<x>>
IsSome(o) == o # <<>>
Unwrap(o) == o[1]
UnwrapOr(o, d) == IF o # <<>> THEN o[1] ELSE d

\* ------------------------------------------------------------ requests

\* Paths are sequences of tokens: "/a" is <<"/", "a">>.
PathA == <<"/", "a">>
PathFastX == <<"/", "fast", "/", "x">>
PathAdminX == <<"/", "admin", "/", "x">>
PathMetrics == <<"/", "metrics">>

\* The request URIs of the model: a path and a query.
Uris ==
    { [path |-> PathA, query |-> None],
      [path |-> PathFastX, query |-> None],
      [path |-> PathAdminX, query |-> None],
      [path |-> PathMetrics, query |-> None] }

\* Uri::path_and_query: the path, then "?" and the query when there is one;
\* None for a request target without a path (the authority form of CONNECT).
path_and_query(uri) ==
    IF uri.path = <<>> THEN None
    ELSE Some(uri.path \o (IF IsSome(uri.query) THEN <<"?", Unwrap(uri.query)>> ELSE <<>>))

\* The key made of the path alone.
generate_cache_key_from_path(uri) == IF uri.path = <<>> THEN <<"/">> ELSE uri.path

\* The cache key is the URI's path-and-query, "/" when there is none.
generate_cache_key(uri) == UnwrapOr(path_and_query(uri), <<"/">>)

Keys == { generate_cache_key(u) : u \in Uris }

\* Requests that differ from GET /a in one part each: the method, the headers,
\* the body, the query, the case of the path; a bypassed path with a query;
\* the root, and a target without path-and-query.  The handler reads the URI
\* of a request, so a request stands where the actions take a uri.
PathUpperA == <<"/", "A">>
PathRoot == <<"/">>
Request(method, path, query, headers, body) ==
    [method |-> method, path |-> path, query |-> query, headers |-> headers, body |-> body]
KeyRequests ==
    { Request("GET", PathA, None, "h1", ""),
      Request("POST", PathA, None, "h1", ""),
      Request("GET", PathA, None, "h2", ""),
      Request("GET", PathA, None, "h1", "b"),
      Request("GET", PathA, Some("q"), "h1", ""),
      Request("GET", PathUpperA, None, "h1", ""),
      Request("GET", PathAdminX, Some("q"), "h1", ""),
      Request("GET", PathRoot, None, "h1", ""),
      Request("CONNECT", <<>>, None, "h1", "") }

\* Every key a request of KeyRequests can be given: with and without its query.
RequestKeys ==
    { generate_cache_key(u) : u \in KeyRequests }
      \cup { UnwrapOr(path_and_query(u), PathRoot) : u \in KeyRequests }
      \cup { u.path : u \in KeyRequests }

\* ------------------------------------------------------------ configuration

\* globset's match of a pattern on a path, token by token: "*" matches any
\* run of tokens (globset's default lets "*" cross "/").
RECURSIVE GlobMatch(_, _)
GlobMatch(pat, s) ==
    IF pat = <<>> THEN s = <<>>
    ELSE IF Head(pat) = "*"
         THEN GlobMatch(Tail(pat), s) \/ (s # <<>> /\ GlobMatch(pat, Tail(s)))
         ELSE s # <<>> /\ Head(s) = Head(pat) /\ GlobMatch(Tail(pat), Tail(s))

\* The cache section of the configuration, the rules in declaration order:
\*   "/admin/*" = { bypass = true }
\*   "/*/x"     = { ttl = "0s", stale = "1s" }
cache_config ==
    [ default_ttl |-> 1,
      stale_if_error |-> 2,
      rules |-> << [pattern |-> <<"/", "admin", "/", "*">>,
                    ttl |-> None, stale |-> None, bypass |-> Some(TRUE)],
                   [pattern |-> <<"/", "*", "/", "x">>,
                    ttl |-> Some(0), stale |-> Some(1), bypass |-> None] >> ]

\* compile_rules pushes the rules in the iteration order of a HashMap, which
\* is any order: every permutation of the declared rules.
compile_rules ==
    LET n == Len(cache_config.rules)
        perms == { p \in [1..n -> 1..n] : \A i, j \in 1..n : p[i] = p[j] => i = j }
    IN { [i \in 1..n |-> cache_config.rules[p[i]]] : p \in perms }

\* find_rule: the first compiled rule whose glob matches the path.
find_rule(compiled, path) ==
    LET hits == { i \in 1..Len(compiled) : GlobMatch(compiled[i].pattern, path) }
    IN IF hits = {} THEN None
       ELSE Some(compiled[CHOOSE i \in hits : \A j \in hits : i <= j])

\* The bypass test lost: every request takes the cached path.
IsBypassNever(rule) == FALSE

\* call_upstream's policy: bypass, ttl and stale_if_error of the found rule.
IsBypass(rule) == IsSome(rule) /\ Unwrap(rule).bypass = Some(TRUE)

EffectiveTtl(rule) ==
    UnwrapOr(IF IsSome(rule) THEN Unwrap(rule).ttl ELSE None, cache_config.default_ttl)

EffectiveStale(rule) ==
    UnwrapOr(IF IsSome(rule) THEN Unwrap(rule).stale ELSE None, cache_config.stale_if_error)

\* ------------------------------------------------------------------ cache

\* is_stale with the boundary moved: an entry of age ttl counts as stale.
is_stale_at_ttl(entry, ttl, now) == now - entry.cached_at >= ttl

\* CachedResponse::is_stale and is_servable_if_error, at instant now.
is_stale(entry, ttl, now) == now - entry.cached_at > ttl

is_servable_if_error(entry, ttl, sie, now) == now - entry.cached_at < ttl + sie

\* ---------------------------------------------------------------- storage

\* set that keeps the cached_at of the entry it replaces.
MemorySetKeepAge(c, key, value) ==
    [c EXCEPT ![key] = IF IsSome(@)
                       THEN Some([body |-> value.body, cached_at |-> Unwrap(@).cached_at])
                       ELSE Some(value)]

\* set that inserts only when the key is absent: the first writer wins.
MemorySetIfAbsent(c, key, value) ==
    [c EXCEPT ![key] = IF IsSome(@) THEN @ ELSE Some(value)]

\* set on a map that holds one entry: the insert evicts every other key.
MemorySetEvicting(c, key, value) ==
    [k \in DOMAIN c |-> IF k = key THEN Some(value) ELSE None]

\* MemoryStorage: a map from key to CachedResponse.
MemoryGet(c, key) == c[key]
MemorySet(c, key, value) == [c EXCEPT ![key] = Some(value)]
MemorySize(c) == Cardinality({ k \in DOMAIN c : IsSome(c[k]) })

\* RedisStorage: the logical keys "{key}:body" and "{key}:cached_at".
RedisKeys == Keys \X {"body", "cached_at"}

\* set with the body's command left out of the pipeline.
RedisSetAgeOnly(r, key, body, elapsed) ==
    [r EXCEPT ![<<key, "cached_at">>] = Some(elapsed)]

\* set computes the entry's age as it is called, and writes body and age.
RedisElapsed(value, now) == now - value.cached_at
RedisSet(r, key, body, elapsed) ==
    [r EXCEPT ![<<key, "body">>] = Some(body), ![<<key, "cached_at">>] = Some(elapsed)]

\* get reads both keys; a missing age fails the u64 conversion (None), a
\* missing body converts to the empty byte vector.  cached_at is rebuilt as
\* now minus the stored age.
RedisReply(b, a, now) ==
    IF ~IsSome(a) THEN None
    ELSE Some([body |-> UnwrapOr(b, ""), cached_at |-> now - Unwrap(a)])
RedisGet(r, key, now) == RedisReply(r[<<key, "body">>], r[<<key, "cached_at">>], now)
RedisSize(r) == 0

\* A failed fetch read as an entry with no body, written now.
RedisGetErrAsEntry(r, key, now) == Some([body |-> "", cached_at |-> now])

\* The store unreachable: get's pipeline fails and the Err arm answers None;
\* set's pipeline fails and its result is discarded, the store unchanged.
RedisGetErr(r, key, now) == None
RedisSetErr(r, key, body, elapsed) == r

\* ---------------------------------------------------------------- durations

\* Configuration strings are sequences of characters.  "U+00E9" is a letter
\* that takes two bytes in UTF-8; every other character takes one.
Chars == {"1", "9", " ", "s", "m", "h", "d", "x", "U+00E9"}
ByteLen(c) == IF c = "U+00E9" THEN 2 ELSE 1
IsAlphabetic(c) == c \in {"s", "m", "h", "d", "x", "U+00E9"}
IsDigit(c) == c \in {"1", "9"}
DigitValue(c) == IF c = "1" THEN 1 ELSE 9

\* The strings of at most MaxLen characters.
Strings == UNION { [1..n -> Chars] : n \in 0..MaxLen }

\* The u64 of the code, scaled to WordBits bits: values are 0 .. Word - 1.
Word == 2 ^ WordBits

\* str::trim: whitespace removed at both ends.
RECURSIVE TrimStart(_)
TrimStart(s) == IF s # <<>> /\ Head(s) = " " THEN TrimStart(Tail(s)) ELSE s
RECURSIVE TrimEnd(_)
TrimEnd(s) ==
    IF s # <<>> /\ s[Len(s)] = " " THEN TrimEnd(SubSeq(s, 1, Len(s) - 1)) ELSE s
Trim(s) == TrimEnd(TrimStart(s))

\* str::len: the length in bytes; and the byte offsets that fall between
\* characters, where split_at does not panic.
RECURSIVE StrLen(_)
StrLen(s) == IF s = <<>> THEN 0 ELSE ByteLen(Head(s)) + StrLen(Tail(s))
IsCharBoundary(s, i) == \E k \in 0..Len(s) : StrLen(SubSeq(s, 1, k)) = i
SplitAt(s, i) ==
    LET k == CHOOSE k \in 0..Len(s) : StrLen(SubSeq(s, 1, k)) = i
    IN <<SubSeq(s, 1, k), SubSeq(s, k + 1, Len(s))>>

\* str::parse::<u64>: digits only, at least one, the value within the word.
RECURSIVE DigitsValue(_)
DigitsValue(ds) ==
    IF ds = <<>> THEN 0
    ELSE 10 * DigitsValue(SubSeq(ds, 1, Len(ds) - 1)) + DigitValue(ds[Len(ds)])
ParseU64(ds) ==
    IF ds = <<>> \/ (\E i \in 1..Len(ds) : ~IsDigit(ds[i])) THEN None
    ELSE IF DigitsValue(ds) >= Word THEN None
    ELSE Some(DigitsValue(ds))

\* The results of a parse: a Duration, an Err, or a panic.
DurationOk(secs, millis) == [kind |-> "ok", secs |-> secs, millis |-> millis, error |-> "none"]
DurationErr(e) == [kind |-> "err", secs |-> 0, millis |-> 0, error |-> e]
DurationPanic == [kind |-> "panic", secs |-> 0, millis |-> 0, error |-> "none"]

\* value * multiplier on u64: a product beyond the word panics in a build
\* with overflow checks ("debug") and wraps around in one without ("release").
CheckedMul(value, multiplier, build) ==
    IF value * multiplier < Word THEN DurationOk(value * multiplier, 0)
    ELSE IF build = "debug" THEN DurationPanic
    ELSE DurationOk((value * multiplier) % Word, 0)

Multiplier(unit) ==
    IF unit = "s" THEN 1 ELSE IF unit = "m" THEN 60 ELSE IF unit = "h" THEN 3600 ELSE 86400

\* config.rs: parse_duration.
parse_duration(str, build) ==
    LET s == Trim(str)
    IN IF s = <<>> THEN DurationErr("empty")
       ELSE IF ~IsCharBoundary(s, StrLen(s) - 1) THEN DurationPanic
       ELSE LET parts == SplitAt(s, StrLen(s) - 1)
                last_char == s[Len(s)]
                num_str == IF IsAlphabetic(last_char) THEN parts[1] ELSE s
                unit_str == IF IsAlphabetic(last_char) THEN parts[2] ELSE <<"s">>
                value == ParseU64(num_str)
            IN IF ~IsSome(value) THEN DurationErr("number")
               ELSE IF unit_str \notin {<<"s">>, <<"m">>, <<"h">>, <<"d">>}
               THEN DurationErr("unit")
               ELSE CheckedMul(Unwrap(value), Multiplier(unit_str[1]), build)

\* main.rs: parse_duration, with its two-letter unit "ms".
main_parse_duration(str, build) ==
    LET s == Trim(str)
        len == StrLen(s)
    IN IF s = <<>> THEN DurationErr("empty")
       ELSE IF ~IsCharBoundary(s, len - 1) THEN DurationPanic
       ELSE LET parts == SplitAt(s, len - 1)
                num_str == parts[1]
                unit == parts[2]
                \* s.chars().nth(s.len() - 2).unwrap_or('0')
                nth == IF len - 1 \in 1..Len(s) THEN s[len - 1] ELSE "0"
                number == ParseU64(num_str)
            IN IF len > 1 /\ IsAlphabetic(nth) /\ ~IsCharBoundary(s, len - 2)
               THEN DurationPanic
               ELSE IF len > 1 /\ IsAlphabetic(nth) /\ SplitAt(s, len - 2)[2] = <<"m", "s">>
               THEN LET n == ParseU64(SplitAt(s, len - 2)[1])
                    IN IF IsSome(n) THEN DurationOk(Unwrap(n) \div 1000, Unwrap(n) % 1000)
                       ELSE DurationErr("number")
               ELSE IF ~IsSome(number) THEN DurationErr("number")
               ELSE IF unit \notin {<<"s">>, <<"m">>, <<"h">>, <<"d">>}
               THEN DurationErr("unit")
               ELSE CheckedMul(Unwrap(number), Multiplier(unit[1]), build)

\* ------------------------------------------------------------ upstream URL

\* upstream.url values: well-formed, without a host, and not a URI.
UpstreamUrls == {"http://up:8080", "/up", "http://u p"}

\* str::parse::<hyper::Uri>.
UriParse(u) ==
    IF u = "http://up:8080"
    THEN Some([scheme |-> Some("http"), host |-> Some("up"), authority |-> Some("up:8080")])
    ELSE IF u = "/up"
    THEN Some([scheme |-> None, host |-> None, authority |-> None])
    ELSE None

\* ------------------------------------------------------------------ state

VARIABLES
    backend,             \* storage.backend: "memory" or "redis" ("redis_down": unreachable)
    prometheus_enabled,  \* prometheus.enabled
    compiled_rules,      \* CacheConfig.compiled_rules
    clock,               \* the monotonic clock, in ticks
    cache,               \* MemoryStorage.cache: key -> Option<CachedResponse>
    redis,               \* the external store: logical key -> Option<value>
    metrics,             \* the counters, the gauge and the histogram's count
    task,                \* the handler tasks: task[h] is handler h's position and locals
    nreq,                \* requests received so far
    written,             \* history: key -> what the last completed set stored
    budget,              \* the number of requests the run receives
    listener,            \* main's accept loop: "accepting" or "exited"
    boot,                \* startup: the raw configuration, its loading, the first upstream call
    pipe                 \* the external store's connections: each one's pipeline in execution

vars == <<backend, prometheus_enabled, compiled_rules, clock, cache, redis,
          metrics, task, nreq, written, budget, listener, boot, pipe>>

\* History kept for a task: what a storage get returned (entry) beside what
\* the last completed set of the key had stored (truth), each with its age
\* at that instant.
AgedEntry(e, now) ==
    IF IsSome(e)
    THEN Some([body |-> Unwrap(e).body, age |-> now - Unwrap(e).cached_at])
    ELSE None

AgedTruth(w, now) ==
    IF IsSome(w)
    THEN Some([body |-> Unwrap(w).body, age |-> now - Unwrap(w).cached_at,
               status |-> Unwrap(w).status])
    ELSE None

Observed(got, key) ==
    [entry |-> AgedEntry(got, clock), truth |-> AgedTruth(written[key], clock)]

Failed(kind, key) == [kind |-> kind, truth |-> AgedTruth(written[key], clock)]

\* The fallback ttl of main.rs's call_upstream, in seconds.
FallbackTtl == 300

\* Startup over and the relay serving: the configuration was loaded from a
\* well-formed file.
Booted ==
    [ phase |-> "serving", entry |-> "config", build |-> "release",
      url |-> "http://up:8080", ttl_str |-> <<"1", "s">>,
      parsed |-> None, default_ttl |-> None, fallback |-> FALSE, outcome |-> "none" ]

\* A connection to the external store with no pipeline.  body and elapsed are
\* the arguments of its last set, got_body and got_age the replies to its last
\* get, result what that get returned, served the body answered as HIT.
IdleConn ==
    [ pc |-> "idle", body |-> "", elapsed |-> 0,
      got_body |-> None, got_age |-> None, result |-> None, served |-> None ]

\* No pipeline in execution; sets is history: the (body, age) pairs handed
\* to set so far.
NoPipes == [conn |-> [h \in Handlers |-> IdleConn], sets |-> {}]

\* A handler task with no request.  fetched is body_bytes (with the status
\* it came with) and value the CachedResponse handed to set.  look, fail and
\* stale are history: what the first lookup, the failed upstream call and
\* the stale lookup met.
IdleTask ==
    [ pc |-> "idle", uri |-> None, rule |-> None, ttl |-> 0,
      fetched |-> None, value |-> None, resp |-> None,
      gets |-> 0, sets |-> 0, calls |-> 0, size |-> 0,
      look |-> None, fail |-> None, stale |-> None ]

\* Responses.  An Err is the handler's Err(..) return.
OkResponse(status, xcache, reason, body, ctype) ==
    [ kind |-> "ok", status |-> status, xcache |-> xcache, reason |-> reason,
      body |-> Some(body), content_type |-> ctype, error |-> "none" ]

ErrResponse(e) ==
    [ kind |-> "err", status |-> 0, xcache |-> None, reason |-> None,
      body |-> None, content_type |-> None, error |-> e ]

\* Response::builder() without .status(..) answers 200.
BuilderDefaultStatus == 200

\* A metric changes only when prometheus is enabled.
Inc(m, name) == IF prometheus_enabled THEN [m EXCEPT ![name] = @ + 1] ELSE m

\* The Storage trait object of handler h: the configured backend.  In the
\* paired run ("both") handler 1 is a relay on the in-memory backend and
\* handler 2 a relay on the external one.
BackendOf(h) ==
    IF backend = "both" THEN (IF h = 1 THEN "memory" ELSE "redis") ELSE backend

StorageGet(h, key) ==
    IF BackendOf(h) = "memory" THEN MemoryGet(cache, key)
    ELSE IF BackendOf(h) = "redis" THEN RedisGet(redis, key, clock)
    ELSE RedisGetErr(redis, key, clock)

StorageSize(h) ==
    IF BackendOf(h) = "memory" THEN MemorySize(cache) ELSE RedisSize(redis)

\* The requests a run receives.
Budget == budget

Init ==
    /\ backend \in {"memory", "redis"}
    /\ prometheus_enabled \in BOOLEAN
    /\ compiled_rules \in compile_rules
    /\ clock = 0
    /\ cache = [k \in Keys |-> None]
    /\ redis = [k \in RedisKeys |-> None]
    /\ metrics = [ cache_hits |-> 0, cache_misses |-> 0, cache_stale_served |-> 0,
                   upstream_errors |-> 0, cache_entries |-> 0, request_duration |-> 0 ]
    /\ task = [h \in Handlers |-> IdleTask]
    /\ nreq = 0
    /\ written = [k \in Keys |-> None]
    /\ budget = MaxRequests
    /\ listener = "accepting"
    /\ boot = Booted
    /\ pipe = NoPipes

\* ---------------------------------------------------------------- actions

\* The outcomes of one upstream call: the four failures, or a response.
UpstreamFailures == {"connect", "handshake", "send", "body"}

\* A task takes a request when it has none, or has answered its last one.
Free(h) == task[h].pc \in {"idle", "done"}

\* The "/metrics" request timed like a proxied one: it observes a duration.
MetricsRequestCounted(h, uri) ==
    /\ Free(h)
    /\ nreq < Budget
    /\ uri.path = PathMetrics
    /\ nreq' = nreq + 1
    /\ metrics' = Inc(metrics, "request_duration")
    /\ task' = [task EXCEPT ![h] =
          [IdleTask EXCEPT !.uri = Some(uri), !.pc = "done",
             !.resp = Some(IF prometheus_enabled
                           THEN OkResponse(BuilderDefaultStatus, None, None, "exporter-text",
                                           Some("text/plain; version=0.0.4"))
                           ELSE OkResponse(404, None, None, "Not Found", None))]]
    /\ UNCHANGED <<pipe, boot, budget, listener, backend, prometheus_enabled, compiled_rules, clock,
                   cache, redis, written>>

\* handle_request for the path "/metrics": answered locally.
MetricsRequest(h, uri) ==
    /\ Free(h)
    /\ nreq < Budget
    /\ uri.path = PathMetrics
    /\ nreq' = nreq + 1
    /\ task' = [task EXCEPT ![h] =
          [IdleTask EXCEPT !.uri = Some(uri), !.pc = "done",
             !.resp = Some(IF prometheus_enabled
                           THEN OkResponse(BuilderDefaultStatus, None, None, "exporter-text",
                                           Some("text/plain; version=0.0.4"))
                           ELSE OkResponse(404, None, None, "Not Found", None))]]
    /\ UNCHANGED <<pipe, boot, budget, listener, backend, prometheus_enabled, compiled_rules, clock, cache, redis,
                   metrics, written>>

\* call_upstream for a path whose rule says bypass: forward_to_upstream.
\* Every failure returns by `?`; a response is answered with X-Cache: BYPASS.
\* The storage is not touched.
BypassRequest(h, uri) ==
    /\ Free(h)
    /\ nreq < Budget
    /\ uri.path # PathMetrics
    /\ IsBypass(find_rule(compiled_rules, uri.path))
    /\ nreq' = nreq + 1
    /\ LET key == generate_cache_key(uri)
           t == [IdleTask EXCEPT !.uri = Some(uri), !.pc = "done", !.calls = 1,
                   !.rule = find_rule(compiled_rules, uri.path)]
       IN \/ \E e \in UpstreamFailures :
               /\ task' = [task EXCEPT ![h] =
                    [t EXCEPT !.resp = Some(ErrResponse(e)),
                       !.fail = Some(Failed(e, key))]]
               /\ metrics' = metrics
          \/ \E res \in UpstreamResponses :
               /\ task' = [task EXCEPT ![h] =
                    [t EXCEPT !.fetched = Some(res),
                       !.resp = Some(OkResponse(BuilderDefaultStatus, Some("BYPASS"), None,
                                                res.body, None))]]
               /\ metrics' = Inc(metrics, "request_duration")
    /\ UNCHANGED <<pipe, boot, budget, listener, backend, prometheus_enabled, compiled_rules, clock, cache, redis,
                   written>>

\* A lookup without a fresh entry left uncounted.
CountMissNever(m) == m

\* CACHE_MISSES.inc() of a lookup that found no fresh entry.
CountMiss(m) == Inc(m, "cache_misses")

\* call_upstream on the cached path, up to the freshness test: the key, the
\* rule, the ttl, cache.get.  A HIT returns, anything else counts a miss.
CacheGet(h, uri) ==
    /\ Free(h)
    /\ nreq < Budget
    /\ uri.path # PathMetrics
    /\ ~IsBypass(find_rule(compiled_rules, uri.path))
    /\ nreq' = nreq + 1
    /\ LET rule == find_rule(compiled_rules, uri.path)
           ttl == EffectiveTtl(rule)
           key == generate_cache_key(uri)
           got == StorageGet(h, key)
           t == [IdleTask EXCEPT !.uri = Some(uri), !.rule = rule, !.ttl = ttl, !.gets = 1,
                   !.look = Some(Observed(got, key))]
       IN IF IsSome(got) /\ ~is_stale(Unwrap(got), ttl, clock)
          THEN /\ metrics' = Inc(Inc(metrics, "cache_hits"), "request_duration")
               /\ task' = [task EXCEPT ![h] =
                    [t EXCEPT !.pc = "done",
                       !.resp = Some(OkResponse(BuilderDefaultStatus, Some("HIT"), None,
                                                Unwrap(got).body, None))]]
          ELSE /\ metrics' = CountMiss(metrics)
               /\ task' = [task EXCEPT ![h] = [t EXCEPT !.pc = "upstream"]]
    /\ UNCHANGED <<pipe, boot, budget, listener, backend, prometheus_enabled, compiled_rules, clock, cache, redis,
                   written>>

\* The upstream call on the cached path: connect, handshake, send, collect.
\* A connect, handshake or body failure returns the error by `?`; a send
\* failure counts an upstream error and goes on to the stale lookup; a
\* response is kept with cached_at = now.
UpstreamCall(h) ==
    /\ task[h].pc = "upstream"
    /\ LET t == [task[h] EXCEPT !.calls = @ + 1]
           key == generate_cache_key(Unwrap(t.uri))
       IN \/ \E e \in UpstreamFailures \ {"send"} :
               /\ task' = [task EXCEPT ![h] =
                    [t EXCEPT !.pc = "done", !.resp = Some(ErrResponse(e)),
                       !.fail = Some(Failed(e, key))]]
               /\ metrics' = metrics
          \/ /\ task' = [task EXCEPT ![h] =
                    [t EXCEPT !.pc = "stale_get",
                       !.fail = Some(Failed("send", key))]]
             /\ metrics' = Inc(metrics, "upstream_errors")
          \/ \E res \in UpstreamResponses :
               /\ task' = [task EXCEPT ![h] =
                    [t EXCEPT !.pc = "set",
                       !.fetched = Some(res),
                       !.value = Some([body |-> res.body, cached_at |-> clock,
                                       elapsed |-> RedisElapsed([cached_at |-> clock], clock)])]]
               /\ metrics' = metrics
    /\ UNCHANGED <<pipe, boot, budget, listener, backend, prometheus_enabled, compiled_rules, clock, cache, redis,
                   nreq, written>>

\* After a send failure: the second cache.get and the stale-if-error test.
StaleGet(h) ==
    /\ task[h].pc = "stale_get"
    /\ LET t == task[h]
           key == generate_cache_key(Unwrap(t.uri))
           stale_if_error == EffectiveStale(t.rule)
           got == StorageGet(h, key)
           seen == [t EXCEPT !.gets = @ + 1, !.pc = "done",
                      !.stale = Some(Observed(got, key))]
       IN IF IsSome(got) /\ is_servable_if_error(Unwrap(got), t.ttl, stale_if_error, clock)
          THEN /\ metrics' = Inc(Inc(metrics, "cache_stale_served"), "request_duration")
               /\ task' = [task EXCEPT ![h] =
                    [seen EXCEPT !.resp = Some(OkResponse(BuilderDefaultStatus, Some("STALE"),
                                                          Some("upstream-error"),
                                                          Unwrap(got).body, None))]]
          ELSE /\ metrics' = Inc(metrics, "request_duration")
               /\ task' = [task EXCEPT ![h] = [seen EXCEPT !.resp = Some(ErrResponse("send"))]]
    /\ UNCHANGED <<pipe, boot, budget, listener, backend, prometheus_enabled, compiled_rules, clock, cache, redis,
                   nreq, written>>

\* A MISS response that looks at the upstream's status: a 5xx is an error.
MissResponseErrOn5xx(t) ==
    IF Unwrap(t.fetched).status >= 500 THEN ErrResponse("status")
    ELSE OkResponse(BuilderDefaultStatus, Some("MISS"), None, Unwrap(t.fetched).body, None)

\* The MISS response, once the entry is stored (and the gauge published).
MissResponse(t) ==
    OkResponse(BuilderDefaultStatus, Some("MISS"), None, Unwrap(t.fetched).body, None)

\* cache.set of the fetched body.  With prometheus disabled nothing else
\* awaits and the MISS response follows.
CacheSet(h) ==
    /\ task[h].pc = "set"
    /\ LET t == task[h]
           key == generate_cache_key(Unwrap(t.uri))
           v == Unwrap(t.value)
           value == [body |-> v.body, cached_at |-> v.cached_at]
           moved == [t EXCEPT !.sets = @ + 1, !.value = None]
       IN /\ IF BackendOf(h) = "memory"
             THEN cache' = MemorySet(cache, key, value) /\ redis' = redis
             ELSE IF BackendOf(h) = "redis"
             THEN redis' = RedisSet(redis, key, v.body, v.elapsed) /\ cache' = cache
             ELSE redis' = RedisSetErr(redis, key, v.body, v.elapsed) /\ cache' = cache
          /\ written' = IF BackendOf(h) = "redis_down" THEN written
                        ELSE [written EXCEPT ![key] =
                                Some([body |-> v.body, cached_at |-> v.cached_at,
                                      status |-> Unwrap(t.fetched).status])]
          /\ IF prometheus_enabled
             THEN /\ task' = [task EXCEPT ![h] = [moved EXCEPT !.pc = "size"]]
                  /\ metrics' = metrics
             ELSE /\ task' = [task EXCEPT ![h] =
                       [moved EXCEPT !.pc = "done", !.resp = Some(MissResponse(t))]]
                  /\ metrics' = metrics
    /\ UNCHANGED <<pipe, boot, budget, listener, backend, prometheus_enabled, compiled_rules, clock, nreq>>

\* cache.size().await: the number of entries, read under the read lock.  The
\* lock is released before the gauge is set, and handler tasks run on the
\* threads of a multi-threaded runtime: other handlers' steps come between.
ReadSize(h) ==
    /\ task[h].pc = "size"
    /\ task' = [task EXCEPT ![h] = [task[h] EXCEPT !.pc = "gauge", !.size = StorageSize(h)]]
    /\ UNCHANGED <<pipe, boot, budget, listener, backend, prometheus_enabled, compiled_rules, clock, cache, redis,
                   metrics, nreq, written>>

\* CACHE_SIZE.set(..) of the size read (a temporary, gone after the call), the
\* duration, and the MISS response.
PublishSize(h) ==
    /\ task[h].pc = "gauge"
    /\ metrics' = Inc([metrics EXCEPT !.cache_entries = task[h].size], "request_duration")
    /\ task' = [task EXCEPT ![h] =
          [task[h] EXCEPT !.pc = "done", !.size = 0, !.resp = Some(MissResponse(task[h]))]]
    /\ UNCHANGED <<pipe, boot, budget, listener, backend, prometheus_enabled, compiled_rules, clock, cache, redis,
                   nreq, written>>

\* Time passes.
Tick ==
    /\ clock < MaxTime
    /\ clock' = clock + 1
    /\ UNCHANGED <<pipe, boot, budget, listener, backend, prometheus_enabled, compiled_rules, cache, redis,
                   metrics, task, nreq, written>>

Next ==
    \/ \E h \in Handlers, uri \in Uris : MetricsRequest(h, uri)
    \/ \E h \in Handlers, uri \in Uris : BypassRequest(h, uri)
    \/ \E h \in Handlers, uri \in Uris : CacheGet(h, uri)
    \/ \E h \in Handlers : UpstreamCall(h)
    \/ \E h \in Handlers : StaleGet(h)
    \/ \E h \in Handlers : CacheSet(h)
    \/ \E h \in Handlers : ReadSize(h)
    \/ \E h \in Handlers : PublishSize(h)
    \/ Tick

Spec == Init /\ [][Next]_vars

\* ------------------------------------------------------- the accept loop

\* main's loop: listener.accept().await? leaves main when accept fails, and
\* the process ends with it.  While the loop runs, requests are handled in
\* spawned tasks; a handler's Err and a serve_connection error stay in the
\* task and are printed.
AcceptError ==
    /\ listener = "accepting"
    /\ listener' = "exited"
    /\ UNCHANGED <<pipe, boot, budget, backend, prometheus_enabled, compiled_rules, clock, cache, redis,
                   metrics, task, nreq, written>>

NextServer ==
    \/ listener = "accepting" /\ Next
    \/ AcceptError

SpecServer == Init /\ [][NextServer]_vars

\* ------------------------------------------------------------- startup

\* The process from its start to its first upstream call.  The configuration
\* file gives upstream.url and cache.default_ttl; entry tells the crate root
\* that runs: "config" is config.rs's load_config with handlers.rs, "main"
\* is main.rs's load_config and call_upstream.
InitBoot ==
    /\ backend = "memory"
    /\ prometheus_enabled = FALSE
    /\ compiled_rules = cache_config.rules
    /\ clock = 0
    /\ cache = [k \in Keys |-> None]
    /\ redis = [k \in RedisKeys |-> None]
    /\ metrics = [ cache_hits |-> 0, cache_misses |-> 0, cache_stale_served |-> 0,
                   upstream_errors |-> 0, cache_entries |-> 0, request_duration |-> 0 ]
    /\ task = [h \in Handlers |-> IdleTask]
    /\ nreq = 0
    /\ written = [k \in Keys |-> None]
    /\ budget = MaxRequests
    /\ listener = "accepting"
    /\ \E entry \in {"config", "main"}, build \in {"debug", "release"},
          url \in UpstreamUrls, ttl_str \in Strings :
          boot = [ phase |-> "start", entry |-> entry, build |-> build,
                   url |-> url, ttl_str |-> ttl_str,
                   parsed |-> None, default_ttl |-> None, fallback |-> FALSE,
                   outcome |-> "none" ]
    /\ pipe = NoPipes

\* config.rs: load_config.  toml::from_str runs deserialize_duration on
\* cache.default_ttl, whose Err fails the load (a panic ends the process as
\* well); upstream.url is kept as the String it is.
LoadConfig ==
    /\ boot.phase = "start" /\ boot.entry = "config"
    /\ LET r == parse_duration(boot.ttl_str, boot.build)
       IN boot' = [boot EXCEPT !.parsed = Some(r),
                     !.phase = IF r.kind = "ok" THEN "loaded" ELSE "exit",
                     !.default_ttl = IF r.kind = "ok" THEN Some(r) ELSE None]
    /\ UNCHANGED <<backend, prometheus_enabled, compiled_rules, clock, cache, redis,
                   metrics, task, nreq, written, budget, listener, pipe>>

\* main.rs: load_config.  default_ttl and upstream.url are Strings, kept.
MainLoadConfig ==
    /\ boot.phase = "start" /\ boot.entry = "main"
    /\ boot' = [boot EXCEPT !.phase = "loaded"]
    /\ UNCHANGED <<backend, prometheus_enabled, compiled_rules, clock, cache, redis,
                   metrics, task, nreq, written, budget, listener, pipe>>

\* What the upstream URL does to a request that reaches the upstream call:
\* upstream_url.parse::<hyper::Uri>()? returns an error, base_url.host()
\* .expect(..) panics, or the call goes on.
UrlOutcome(url) ==
    IF ~IsSome(UriParse(url)) THEN "url_error"
    ELSE IF ~IsSome(Unwrap(UriParse(url)).host) \/ ~IsSome(Unwrap(UriParse(url)).authority)
    THEN "panic"
    ELSE "ok"

\* The first request that misses the cache.  handlers.rs uses the ttl load
\* gave; main.rs parses the string now and falls back on an Err.
BootRequest ==
    /\ boot.phase = "loaded"
    /\ IF boot.entry = "config"
       THEN boot' = [boot EXCEPT !.phase = "served", !.outcome = UrlOutcome(boot.url)]
       ELSE LET r == main_parse_duration(boot.ttl_str, boot.build)
            IN boot' = [boot EXCEPT !.phase = "served",
                          !.parsed = Some(r),
                          !.fallback = (r.kind = "err"),
                          !.default_ttl = IF r.kind = "ok" THEN Some(r)
                                          ELSE Some(DurationOk(FallbackTtl, 0)),
                          !.outcome = IF r.kind = "panic" THEN "panic"
                                      ELSE UrlOutcome(boot.url)]
    /\ UNCHANGED <<backend, prometheus_enabled, compiled_rules, clock, cache, redis,
                   metrics, task, nreq, written, budget, listener, pipe>>

NextBoot ==
    \/ LoadConfig
    \/ MainLoadConfig
    \/ BootRequest

SpecBoot == InitBoot /\ [][NextBoot]_vars

\* ------------------------------------------------------- keys of requests

\* A relay on the in-memory backend that receives the requests of
\* KeyRequests, at one instant.
InitKey ==
    /\ backend = "memory"
    /\ prometheus_enabled = FALSE
    /\ compiled_rules \in compile_rules
    /\ clock = 0
    /\ cache = [k \in RequestKeys |-> None]
    /\ redis = [k \in RedisKeys |-> None]
    /\ metrics = [ cache_hits |-> 0, cache_misses |-> 0, cache_stale_served |-> 0,
                   upstream_errors |-> 0, cache_entries |-> 0, request_duration |-> 0 ]
    /\ task = [h \in Handlers |-> IdleTask]
    /\ nreq = 0
    /\ written = [k \in RequestKeys |-> None]
    /\ budget = MaxRequests
    /\ listener = "accepting"
    /\ boot = Booted
    /\ pipe = NoPipes

NextKey ==
    \/ \E h \in Handlers, req \in KeyRequests : BypassRequest(h, req)
    \/ \E h \in Handlers, req \in KeyRequests : CacheGet(h, req)
    \/ \E h \in Handlers : UpstreamCall(h)
    \/ \E h \in Handlers : StaleGet(h)
    \/ \E h \in Handlers : CacheSet(h)

SpecKey == InitKey /\ [][NextKey]_vars

\* ------------------------------------------- the external store, shared

\* Two relay processes on one external store, each with its connection
\* (RedisStorage.client), calling set and get for one key.  redis::pipe()
\* without .atomic() sends its commands with no MULTI/EXEC around them: the
\* store executes the commands of one connection in order, and between two of
\* them it may execute commands of the other connection.  (The handlers of one
\* process share one connection, whose pipelines follow one another: there a
\* set and a get are one step each, as RedisSet and RedisGet.)
PipeKey == generate_cache_key([path |-> PathA, query |-> None])

InitRedis ==
    /\ backend = "redis"
    /\ prometheus_enabled = FALSE
    /\ compiled_rules = cache_config.rules
    /\ clock = 0
    /\ cache = [k \in Keys |-> None]
    /\ redis = [k \in RedisKeys |-> None]
    /\ metrics = [ cache_hits |-> 0, cache_misses |-> 0, cache_stale_served |-> 0,
                   upstream_errors |-> 0, cache_entries |-> 0, request_duration |-> 0 ]
    /\ task = [h \in Handlers |-> IdleTask]
    /\ nreq = 0
    /\ written = [k \in Keys |-> None]
    /\ budget = MaxRequests + 1
    /\ listener = "accepting"
    /\ boot = Booted
    /\ pipe = NoPipes

\* RedisStorage::set is called: the age is computed, the pipeline is sent.
RedisSetCall(h, body, cached_at) ==
    /\ pipe.conn[h].pc = "idle"
    /\ cached_at <= clock
    /\ nreq < Budget
    /\ nreq' = nreq + 1
    /\ LET elapsed == RedisElapsed([body |-> body, cached_at |-> cached_at], clock)
       IN pipe' = [pipe EXCEPT !.conn[h].pc = "set_body", !.conn[h].body = body,
                     !.conn[h].elapsed = elapsed, !.sets = @ \cup {<<body, elapsed>>}]
    /\ UNCHANGED <<backend, prometheus_enabled, compiled_rules, clock, cache, redis,
                   metrics, task, written, budget, listener, boot>>

\* The store executes SET "{key}:body".
RedisExecSetBody(h) ==
    /\ pipe.conn[h].pc = "set_body"
    /\ redis' = [redis EXCEPT ![<<PipeKey, "body">>] = Some(pipe.conn[h].body)]
    /\ pipe' = [pipe EXCEPT !.conn[h].pc = "set_age"]
    /\ UNCHANGED <<backend, prometheus_enabled, compiled_rules, clock, cache,
                   metrics, task, nreq, written, budget, listener, boot>>

\* The store executes SET "{key}:cached_at"; set returns.
RedisExecSetAge(h) ==
    /\ pipe.conn[h].pc = "set_age"
    /\ redis' = [redis EXCEPT ![<<PipeKey, "cached_at">>] = Some(pipe.conn[h].elapsed)]
    /\ pipe' = [pipe EXCEPT !.conn[h].pc = "idle"]
    /\ UNCHANGED <<backend, prometheus_enabled, compiled_rules, clock, cache,
                   metrics, task, nreq, written, budget, listener, boot>>

\* RedisStorage::get is called: the pipeline is sent.
RedisGetCall(h) ==
    /\ pipe.conn[h].pc = "idle"
    /\ nreq < Budget
    /\ nreq' = nreq + 1
    /\ pipe' = [pipe EXCEPT !.conn[h].pc = "get_body", !.conn[h].got_body = None,
                  !.conn[h].got_age = None, !.conn[h].result = None,
                  !.conn[h].served = None]
    /\ UNCHANGED <<backend, prometheus_enabled, compiled_rules, clock, cache, redis,
                   metrics, task, written, budget, listener, boot>>

\* The store executes GET "{key}:body".
RedisExecGetBody(h) ==
    /\ pipe.conn[h].pc = "get_body"
    /\ pipe' = [pipe EXCEPT !.conn[h].pc = "get_age",
                  !.conn[h].got_body = redis[<<PipeKey, "body">>]]
    /\ UNCHANGED <<backend, prometheus_enabled, compiled_rules, clock, cache, redis,
                   metrics, task, nreq, written, budget, listener, boot>>

\* The store executes GET "{key}:cached_at"; get converts the two replies
\* and returns.
RedisExecGetAge(h) ==
    /\ pipe.conn[h].pc = "get_age"
    /\ LET a == redis[<<PipeKey, "cached_at">>]
       IN pipe' = [pipe EXCEPT !.conn[h].pc = "got", !.conn[h].got_age = a,
                     !.conn[h].result = RedisReply(pipe.conn[h].got_body, a, clock)]
    /\ UNCHANGED <<backend, prometheus_enabled, compiled_rules, clock, cache, redis,
                   metrics, task, nreq, written, budget, listener, boot>>

\* call_upstream with what get returned: an entry that is not stale is
\* answered as HIT with its body; otherwise the request goes to the upstream.
RelayAnswer(h) ==
    /\ pipe.conn[h].pc = "got"
    /\ LET got == pipe.conn[h].result
           ttl == EffectiveTtl(find_rule(compiled_rules, PathA))
       IN pipe' = [pipe EXCEPT !.conn[h].pc = "idle",
                     !.conn[h].served =
                        IF IsSome(got) /\ ~is_stale(Unwrap(got), ttl, clock)
                        THEN Some(Unwrap(got).body) ELSE None]
    /\ UNCHANGED <<backend, prometheus_enabled, compiled_rules, clock, cache, redis,
                   metrics, task, nreq, written, budget, listener, boot>>

NextRedis ==
    \/ \E h \in Handlers, body \in {"X", "Y"}, cached_at \in 0..MaxTime :
          RedisSetCall(h, body, cached_at)
    \/ \E h \in Handlers : RedisExecSetBody(h)
    \/ \E h \in Handlers : RedisExecSetAge(h)
    \/ \E h \in Handlers : RedisGetCall(h)
    \/ \E h \in Handlers : RedisExecGetBody(h)
    \/ \E h \in Handlers : RedisExecGetAge(h)
    \/ \E h \in Handlers : RelayAnswer(h)
    \/ Tick

SpecRedis == InitRedis /\ [][NextRedis]_vars

\* ---------------------------------------------------------- the paired run

\* Two relays with the same configuration, handler 1 on the in-memory
\* backend and handler 2 on the external one, are given the same requests,
\* the same upstream outcomes and the same clock: handler 1 answers a request
\* (nreq odd), then handler 2 answers the same request at the same instant
\* with the same upstream outcome, and only then may time pass.  The metrics
\* are each process's own and no part of the comparison: prometheus is off.
InitPair ==
    /\ backend = "both"
    /\ prometheus_enabled = FALSE
    /\ compiled_rules \in compile_rules
    /\ clock = 0
    /\ cache = [k \in Keys |-> None]
    /\ redis = [k \in RedisKeys |-> None]
    /\ metrics = [ cache_hits |-> 0, cache_misses |-> 0, cache_stale_served |-> 0,
                   upstream_errors |-> 0, cache_entries |-> 0, request_duration |-> 0 ]
    /\ task = [h \in Handlers |-> IdleTask]
    /\ nreq = 0
    /\ written = [k \in Keys |-> None]
    /\ budget = 2 * MaxRequests
    /\ listener = "accepting"
    /\ boot = Booted
    /\ pipe = NoPipes

\* Handler 2's upstream call ends as handler 1's did.
SameUpstream ==
    /\ task'[2].fetched = task[1].fetched
    /\ IsSome(task'[2].fail) = IsSome(task[1].fail)
    /\ IsSome(task[1].fail) => Unwrap(task'[2].fail).kind = Unwrap(task[1].fail).kind

PairFirst ==
    /\ nreq % 2 = 0
    /\ \A h \in Handlers : Free(h)
    /\ \E uri \in Uris : MetricsRequest(1, uri) \/ BypassRequest(1, uri) \/ CacheGet(1, uri)

PairFirstRuns ==
    UpstreamCall(1) \/ StaleGet(1) \/ CacheSet(1)

PairSecond ==
    /\ nreq % 2 = 1
    /\ task[1].pc = "done"
    /\ LET uri == Unwrap(task[1].uri)
       IN \/ MetricsRequest(2, uri)
          \/ BypassRequest(2, uri) /\ SameUpstream
          \/ CacheGet(2, uri)

PairSecondRuns ==
    \/ UpstreamCall(2) /\ SameUpstream
    \/ StaleGet(2)
    \/ CacheSet(2)

PairTick ==
    /\ nreq % 2 = 0
    /\ \A h \in Handlers : Free(h)
    /\ Tick

NextPair ==
    \/ PairFirst
    \/ PairFirstRuns
    \/ PairSecond
    \/ PairSecondRuns
    \/ PairTick

SpecPair == InitPair /\ [][NextPair]_vars

\* ------------------------------------------------- the store unreachable

\* The relay on the external backend with the store unreachable for the
\* whole run: every get and every set fails.
InitDown ==
    /\ backend = "redis_down"
    /\ prometheus_enabled \in BOOLEAN
    /\ compiled_rules \in compile_rules
    /\ clock = 0
    /\ cache = [k \in Keys |-> None]
    /\ redis = [k \in RedisKeys |-> None]
    /\ metrics = [ cache_hits |-> 0, cache_misses |-> 0, cache_stale_served |-> 0,
                   upstream_errors |-> 0, cache_entries |-> 0, request_duration |-> 0 ]
    /\ task = [h \in Handlers |-> IdleTask]
    /\ nreq = 0
    /\ written = [k \in Keys |-> None]
    /\ budget = MaxRequests
    /\ listener = "accepting"
    /\ boot = Booted
    /\ pipe = NoPipes

SpecDown == InitDown /\ [][Next]_vars

\* ------------------------------------------- the metrics accounting run

\* One client, metrics enabled, counters zeroed: GET /a three times, GET
\* /fast/x (the second key), then time passes and GET /a once more.  The
\* upstream answers the first four requests and fails the fifth.  A request
\* is received when the one before is answered.
InitScenario ==
    /\ backend \in {"memory", "redis"}
    /\ prometheus_enabled = TRUE
    /\ compiled_rules \in compile_rules
    /\ clock = 0
    /\ cache = [k \in Keys |-> None]
    /\ redis = [k \in RedisKeys |-> None]
    /\ metrics = [ cache_hits |-> 0, cache_misses |-> 0, cache_stale_served |-> 0,
                   upstream_errors |-> 0, cache_entries |-> 0, request_duration |-> 0 ]
    /\ task = [h \in Handlers |-> IdleTask]
    /\ nreq = 0
    /\ written = [k \in Keys |-> None]
    /\ budget = ScenarioRequests
    /\ listener = "accepting"
    /\ boot = Booted
    /\ pipe = NoPipes

ScenarioUri ==
    IF nreq = 3 THEN [path |-> PathFastX, query |-> None]
    ELSE [path |-> PathA, query |-> None]

ScenarioReceive ==
    /\ \A h \in Handlers : Free(h)
    /\ \E h \in Handlers : CacheGet(h, ScenarioUri)

ScenarioUpstream ==
    \E h \in Handlers :
        /\ UpstreamCall(h)
        /\ IsSome(task'[h].fail) <=> (nreq >= 5)

ScenarioRuns ==
    \E h \in Handlers : StaleGet(h) \/ CacheSet(h) \/ ReadSize(h) \/ PublishSize(h)

ScenarioTick ==
    /\ nreq = 4
    /\ \A h \in Handlers : Free(h)
    /\ Tick

NextScenario ==
    \/ ScenarioReceive
    \/ ScenarioUpstream
    \/ ScenarioRuns
    \/ ScenarioTick

SpecScenario == InitScenario /\ [][NextScenario]_vars

\* ----------------------------------------------------------------- claims

\* The request of task h, and the tasks that hold a proxied request.
UriOf(h) == Unwrap(task[h].uri)
Proxied(h) == IsSome(task[h].uri) /\ UriOf(h).path # PathMetrics
Answered(h) == Proxied(h) /\ task[h].pc = "done"
RespOf(h) == Unwrap(task[h].resp)
Stamped(h, x) == Answered(h) /\ RespOf(h).kind = "ok" /\ RespOf(h).xcache = Some(x)

\* C1: a request on the cached path that finds the key stored by a completed
\* set, at an age within its ttl, is answered at once with X-Cache: HIT and
\* the stored body, and makes no upstream call.
C1_IdempotentGetCaching ==
    \A h \in Handlers :
        (IsSome(task[h].look) /\ IsSome(Unwrap(task[h].look).truth)
            /\ Unwrap(Unwrap(task[h].look).truth).age <= task[h].ttl)
        => /\ Stamped(h, "HIT")
           /\ RespOf(h).body = Some(Unwrap(Unwrap(task[h].look).truth).body)
           /\ task[h].calls = 0

\* C1's case: a HIT for an entry stored at an earlier instant.
C1_Witness ==
    \E h \in Handlers :
        /\ Stamped(h, "HIT")
        /\ IsSome(Unwrap(task[h].look).truth)
        /\ Unwrap(Unwrap(task[h].look).truth).age >= 1
        /\ Unwrap(Unwrap(task[h].look).truth).age <= task[h].ttl

\* What the key held when task h's upstream failure was decided: at the
\* stale lookup after a send failure, else at the failure.
TruthAtFailure(h) ==
    IF IsSome(task[h].stale) THEN Unwrap(task[h].stale).truth
    ELSE Unwrap(task[h].fail).truth

\* C2: a request on the cached path whose upstream call fails, in any way,
\* is answered with the stored body, X-Cache: STALE and X-Cache-Reason:
\* upstream-error when the key's entry has ttl < age <= ttl + stale_if_error,
\* and fails when the entry is older or there is none.
C2_StaleOnError ==
    \A h \in Handlers :
        (Answered(h) /\ IsSome(task[h].look) /\ IsSome(task[h].fail))
        => LET truth == TruthAtFailure(h)
               limit == task[h].ttl + EffectiveStale(task[h].rule)
           IN /\ (IsSome(truth) /\ task[h].ttl < Unwrap(truth).age /\ Unwrap(truth).age <= limit)
                 => /\ Stamped(h, "STALE")
                    /\ RespOf(h).reason = Some("upstream-error")
                    /\ RespOf(h).body = Some(Unwrap(truth).body)
              /\ (~IsSome(truth) \/ Unwrap(truth).age > limit)
                 => RespOf(h).kind = "err"

\* C3: a response stamped X-Cache: STALE comes from a request whose own
\* upstream call failed, for an entry whose age when served is in
\* [ttl, ttl + stale_if_error).
C3_StaleOnlyInWindow ==
    \A h \in Handlers :
        Stamped(h, "STALE")
        => /\ IsSome(task[h].fail)
           /\ IsSome(task[h].stale) /\ IsSome(Unwrap(task[h].stale).truth)
           /\ LET age == Unwrap(Unwrap(task[h].stale).truth).age
              IN /\ task[h].ttl <= age
                 /\ age < task[h].ttl + EffectiveStale(task[h].rule)

\* C4: a request whose rule says bypass = true makes no storage get and no
\* storage set, makes one upstream call, and when that call succeeds is
\* answered with the body it fetched and X-Cache: BYPASS.
C4_BypassIsTotal ==
    \A h \in Handlers :
        (Proxied(h) /\ IsSome(task[h].rule) /\ Unwrap(task[h].rule).bypass = Some(TRUE))
        => /\ task[h].gets = 0 /\ task[h].sets = 0
           /\ ~IsSome(task[h].look) /\ ~IsSome(task[h].stale)
           /\ task[h].pc = "done"
           /\ task[h].calls = 1
           /\ RespOf(h).kind = "ok"
              => /\ RespOf(h).xcache = Some("BYPASS")
                 /\ RespOf(h).body = Some(Unwrap(task[h].fetched).body)
           /\ RespOf(h).kind = "err" => IsSome(task[h].fail)

\* C4's case: a bypass request answered with X-Cache: BYPASS.
C4_Witness ==
    \E h \in Handlers :
        /\ Proxied(h) /\ IsSome(task[h].rule) /\ Unwrap(task[h].rule).bypass = Some(TRUE)
        /\ Stamped(h, "BYPASS")

\* C5: the rule applied to a request is the first rule, in the order the
\* configuration declares them, whose glob matches the path.
C5_FirstDeclaredRuleWins ==
    \A h \in Handlers :
        Proxied(h) => task[h].rule = find_rule(cache_config.rules, UriOf(h).path)

\* C6: with no matching rule the policy is the defaults without bypass; a
\* matching rule that does not say bypass gives ttl and stale_if_error field
\* by field, each defaulted when absent; a matching rule with bypass = true
\* gives bypass.  So an entry older than a rule's ttl and within the default
\* ttl is not served as a HIT.
C6_PolicyFieldwise ==
    \A h \in Handlers :
        Proxied(h)
        => LET r == task[h].rule
               path == UriOf(h).path
               declared == cache_config.rules
               bypassed == ~IsSome(task[h].look) /\ task[h].gets = 0
           IN /\ (\A i \in 1..Len(declared) : ~GlobMatch(declared[i].pattern, path))
                 => ~IsSome(r) /\ ~bypassed /\ task[h].ttl = cache_config.default_ttl
              /\ (IsSome(r) /\ Unwrap(r).bypass = Some(TRUE)) => bypassed
              /\ (IsSome(r) /\ Unwrap(r).bypass # Some(TRUE))
                 => /\ ~bypassed
                    /\ task[h].ttl = UnwrapOr(Unwrap(r).ttl, cache_config.default_ttl)
                    /\ EffectiveStale(r) = UnwrapOr(Unwrap(r).stale, cache_config.stale_if_error)
              /\ (IsSome(r) /\ IsSome(Unwrap(r).ttl) /\ IsSome(task[h].look)
                    /\ IsSome(Unwrap(task[h].look).truth)
                    /\ Unwrap(Unwrap(r).ttl) < Unwrap(Unwrap(task[h].look).truth).age
                    /\ Unwrap(Unwrap(task[h].look).truth).age <= cache_config.default_ttl)
                 => ~Stamped(h, "HIT")

\* The lookups of task h: the first one and the stale one.
Lookups(h) ==
    { Unwrap(o) : o \in { x \in {task[h].look, task[h].stale} : IsSome(x) } }

\* C7: a get returns the cached_at the set stored, so the age it shows is the
\* time since the write, and an entry written more than ttl ago is not
\* served as fresh.
C7_AgeMeasuredFromWrite ==
    \A h \in Handlers :
        /\ \A o \in Lookups(h) :
              (IsSome(o.entry) /\ IsSome(o.truth)) => Unwrap(o.entry).age = Unwrap(o.truth).age
        /\ (IsSome(task[h].look) /\ IsSome(Unwrap(task[h].look).truth)
              /\ Unwrap(Unwrap(task[h].look).truth).age > task[h].ttl)
           => ~Stamped(h, "HIT")

\* What a client sees of a response: its kind, its X-Cache value, its body.
Outcome(r) == <<r.kind, r.xcache, r.body>>

\* C8: given the same requests, upstream outcomes and clock, the relay on
\* the external backend answers every request with the same outcome and body
\* as the relay on the in-memory backend.
C8_BackendsAgree ==
    (backend = "both" /\ nreq > 0 /\ nreq % 2 = 0 /\ \A h \in Handlers : task[h].pc = "done")
    => Outcome(RespOf(1)) = Outcome(RespOf(2))

\* C9: on both backends a get of a key after a completed set of it returns
\* an entry, with exactly the body that set stored.
C9_StorageEquivalence ==
    \A h \in Handlers : \A o \in Lookups(h) :
        /\ IsSome(o.truth) => (IsSome(o.entry) /\ Unwrap(o.entry).body = Unwrap(o.truth).body)
        /\ IsSome(o.entry) => IsSome(o.truth)

\* C9's case: a get on the external backend that returns a stored entry,
\* some time after the set.
C9_Witness ==
    \E h \in Handlers : \E o \in Lookups(h) :
        /\ BackendOf(h) = "redis"
        /\ IsSome(o.entry) /\ IsSome(o.truth)
        /\ Unwrap(o.truth).age >= 1

\* The status of the upstream response whose body task h answers with.
UpstreamStatusOf(h) ==
    IF RespOf(h).xcache = Some("HIT") THEN Unwrap(Unwrap(task[h].look).truth).status
    ELSE IF RespOf(h).xcache = Some("STALE") THEN Unwrap(Unwrap(task[h].stale).truth).status
    ELSE Unwrap(task[h].fetched).status

\* C10: a successful response to a proxied request carries the upstream's
\* status, one X-Cache value out of HIT, MISS, STALE, BYPASS, and
\* X-Cache-Reason: upstream-error exactly when X-Cache is STALE.
C10_ResponseCarriesUpstream ==
    \A h \in Handlers :
        (Answered(h) /\ RespOf(h).kind = "ok")
        => /\ RespOf(h).xcache \in { Some(x) : x \in {"HIT", "MISS", "STALE", "BYPASS"} }
           /\ (RespOf(h).reason = Some("upstream-error")) <=> (RespOf(h).xcache = Some("STALE"))
           /\ RespOf(h).reason \in {None, Some("upstream-error")}
           /\ RespOf(h).status = UpstreamStatusOf(h)

\* Every request received so far is still held by a task: no task has
\* taken a second request.
AllVisible == nreq = Cardinality({ h \in Handlers : task[h].pc # "idle" })

\* The requests on the cached path, and the events the counters count.
Cached(h) == Proxied(h) /\ IsSome(task[h].look)
HitsServed == { h \in Handlers : Stamped(h, "HIT") }
MissesTaken == { h \in Handlers : Cached(h) /\ ~Stamped(h, "HIT") }
StalesServed == { h \in Handlers : Stamped(h, "STALE") }
UpstreamsFailed == { h \in Handlers : Cached(h) /\ IsSome(task[h].fail) }

\* C11: with metrics enabled each counter equals the number of its events
\* so far: cache_hits the HITs served, cache_misses the requests that found
\* no fresh entry and went to the upstream, cache_stale_served the STALE
\* responses, upstream_errors the upstream calls that failed in any way.
C11_CountersCountEvents ==
    (prometheus_enabled /\ AllVisible)
    => /\ metrics.cache_hits = Cardinality(HitsServed)
       /\ metrics.cache_misses = Cardinality(MissesTaken)
       /\ metrics.cache_stale_served = Cardinality(StalesServed)
       /\ metrics.upstream_errors = Cardinality(UpstreamsFailed)

\* C12: the accounting scenario (MISS /a, HIT /a, HIT /a, MISS for the second
\* key, then /a in its stale window with the upstream failing, answered
\* STALE) ends with cache_hits = 2, cache_misses = 2, cache_stale_served = 1
\* and upstream_errors = 1.
C12_AccountingScenario ==
    (budget = ScenarioRequests /\ nreq = 5 /\ \E h \in Handlers : Stamped(h, "STALE"))
    => /\ metrics.cache_hits = 2
       /\ metrics.cache_misses = 2
       /\ metrics.cache_stale_served = 1
       /\ metrics.upstream_errors = 1

\* C13: with metrics enabled every answered proxied request, whatever its
\* exit (HIT, MISS, STALE, BYPASS or an error), has recorded exactly one
\* request-duration observation.
C13_DurationOnEveryExit ==
    (prometheus_enabled /\ AllVisible)
    => metrics.request_duration = Cardinality({ h \in Handlers : Answered(h) })

\* The tasks holding a request whose rule says bypass.
Bypassed(h) == Proxied(h) /\ IsSome(task[h].rule) /\ Unwrap(task[h].rule).bypass = Some(TRUE)

\* C14: bypass requests, succeeding or failing, change no counter and not
\* the cache_entries gauge, and each records one duration observation.
C14_BypassMetricsFrame ==
    (prometheus_enabled /\ AllVisible
        /\ \A h \in Handlers : task[h].pc # "idle" => Bypassed(h))
    => /\ metrics.cache_hits = 0 /\ metrics.cache_misses = 0
       /\ metrics.cache_stale_served = 0 /\ metrics.upstream_errors = 0
       /\ metrics.cache_entries = 0
       /\ metrics.request_duration = Cardinality({ h \in Handlers : Bypassed(h) })

\* The tasks holding a "/metrics" request, and that request's key.
MetricsTask(h) == IsSome(task[h].uri) /\ UriOf(h).path = PathMetrics
MetricsKey == generate_cache_key([path |-> PathMetrics, query |-> None])

\* C15: a "/metrics" request is answered locally, with the exporter text and
\* content-type text/plain; version=0.0.4 when metrics are enabled and with
\* 404 "Not Found" when they are not; it reads and writes no storage, makes
\* no upstream call and changes no counter and no histogram.
C15_MetricsAnsweredLocally ==
    /\ \A h \in Handlers :
          MetricsTask(h)
          => /\ task[h].pc = "done"
             /\ task[h].gets = 0 /\ task[h].sets = 0 /\ task[h].calls = 0
             /\ ~IsSome(task[h].look) /\ ~IsSome(task[h].stale)
             /\ ~IsSome(task[h].fail) /\ ~IsSome(task[h].fetched)
             /\ RespOf(h).kind = "ok" /\ RespOf(h).xcache = None
             /\ IF prometheus_enabled
                THEN /\ RespOf(h).status = 200
                     /\ RespOf(h).body = Some("exporter-text")
                     /\ RespOf(h).content_type = Some("text/plain; version=0.0.4")
                ELSE /\ RespOf(h).status = 404
                     /\ RespOf(h).body = Some("Not Found")
    /\ ~IsSome(cache[MetricsKey]) /\ ~IsSome(written[MetricsKey])
    /\ ~IsSome(redis[<<MetricsKey, "body">>]) /\ ~IsSome(redis[<<MetricsKey, "cached_at">>])
    /\ (prometheus_enabled /\ AllVisible)
       => /\ metrics.cache_hits = Cardinality(HitsServed)
          /\ metrics.cache_misses = Cardinality(MissesTaken)
          /\ metrics.cache_stale_served = Cardinality(StalesServed)
          /\ metrics.upstream_errors <= Cardinality(UpstreamsFailed)
          /\ metrics.request_duration <= Cardinality({ h \in Handlers : Answered(h) })

\* C15's case: with metrics enabled, a "/metrics" request answered beside a
\* proxied request that has counted a miss.
C15_Witness ==
    /\ prometheus_enabled /\ AllVisible
    /\ \E h, g \in Handlers :
          /\ MetricsTask(h) /\ task[h].pc = "done"
          /\ Stamped(g, "MISS") /\ metrics.cache_misses = 1

\* C16: with the store failing every operation, a get is a miss and a set is
\* swallowed: no request is a HIT or a STALE, every request on the cached
\* path whose upstream call succeeds is answered X-Cache: MISS with the
\* upstream body, and a request fails only when its upstream call failed.
C16_StorageErrorsNeverFail ==
    backend = "redis_down"
    => \A h \in Handlers :
          Cached(h)
          => /\ ~IsSome(Unwrap(task[h].look).entry)
             /\ ~Stamped(h, "HIT") /\ ~Stamped(h, "STALE")
             /\ (task[h].pc = "done" /\ IsSome(task[h].fetched))
                => /\ Stamped(h, "MISS")
                   /\ RespOf(h).body = Some(Unwrap(task[h].fetched).body)
             /\ (task[h].pc = "done" /\ RespOf(h).kind = "err") => IsSome(task[h].fail)
             /\ task[h].pc = "done" => task[h].calls = 1

\* C16's case: with the store unreachable, two requests for one key, both
\* answered MISS after a failed get and a swallowed set.
C16_Witness ==
    /\ backend = "redis_down"
    /\ \A h \in Handlers :
          /\ Stamped(h, "MISS") /\ task[h].sets = 1
          /\ UriOf(h).path = PathA

\* C17: an upstream response of any status, 4xx and 5xx included, is a
\* success: its body is stored under the request's key and answered with
\* X-Cache: MISS, it counts as a miss and not as an upstream error, and it
\* is served as a HIT to later requests within ttl.
C17_StatusNotExamined ==
    /\ \A h \in Handlers :
          /\ (Cached(h) /\ task[h].pc = "done" /\ IsSome(task[h].fetched))
             => /\ Stamped(h, "MISS")
                /\ RespOf(h).body = Some(Unwrap(task[h].fetched).body)
                /\ task[h].sets = 1
                /\ IsSome(StorageGet(h, generate_cache_key(UriOf(h))))
          /\ (Cached(h) /\ IsSome(Unwrap(task[h].look).truth)
                /\ Unwrap(Unwrap(task[h].look).truth).status >= 400
                /\ Unwrap(Unwrap(task[h].look).truth).age <= task[h].ttl)
             => /\ Stamped(h, "HIT")
                /\ RespOf(h).body = Some(Unwrap(Unwrap(task[h].look).truth).body)
    /\ (prometheus_enabled /\ AllVisible)
       => /\ metrics.cache_misses = Cardinality(MissesTaken)
          /\ (\A h \in Handlers : ~IsSome(task[h].fail)) => metrics.upstream_errors = 0

\* C17's case: a HIT serving the stored body of a 500 response.
C17_Witness ==
    \E h \in Handlers :
        /\ Stamped(h, "HIT")
        /\ IsSome(Unwrap(task[h].look).truth)
        /\ Unwrap(Unwrap(task[h].look).truth).status = 500

\* What a get by handler h returns in the state a step leads to.
StorageGetNext(h, key) ==
    IF BackendOf(h) = "memory" THEN MemoryGet(cache', key)
    ELSE IF BackendOf(h) = "redis" THEN RedisGet(redis', key, clock')
    ELSE RedisGetErr(redis', key, clock')

\* C18: every set of a fetched body replaces the key's entry, whatever it
\* was: a get right after the set returns the new body, with a cached_at not
\* older than the new fetch, so the entry is fresh when the fetch is within
\* ttl, whatever the age of the replaced entry.
C18_OverwriteResetsAge ==
    [][\A h \in Handlers :
          CacheSet(h)
          => LET key == generate_cache_key(UriOf(h))
                 v == Unwrap(task[h].value)
                 got == StorageGetNext(h, key)
             IN /\ IsSome(got)
                /\ Unwrap(got).body = v.body
                /\ Unwrap(got).cached_at >= v.cached_at
                /\ (clock' - v.cached_at <= task[h].ttl)
                   => ~is_stale(Unwrap(got), task[h].ttl, clock')]_vars

\* C18's case: a request that found an entry older than ttl and has stored
\* the body it fetched over it.
C18_Witness ==
    \E h \in Handlers :
        /\ Stamped(h, "MISS") /\ task[h].sets = 1
        /\ IsSome(Unwrap(task[h].look).entry)
        /\ Unwrap(Unwrap(task[h].look).entry).age > task[h].ttl

\* What the in-memory map must hold for a key: the last completed set's value.
LatestSet(k) ==
    IF IsSome(written[k])
    THEN Some([body |-> Unwrap(written[k]).body, cached_at |-> Unwrap(written[k]).cached_at])
    ELSE None

\* C19: on the in-memory backend, in every interleaving, the map holds for
\* each key exactly the value of the latest completed set, and every get
\* returned exactly that value: never absent once a set completed, never a
\* mixture of two sets.
C19_MemoryLinearizable ==
    backend = "memory"
    => /\ \A k \in Keys : cache[k] = LatestSet(k)
       /\ \A h \in Handlers : \A o \in Lookups(h) :
             o.entry = (IF IsSome(o.truth)
                        THEN Some([body |-> Unwrap(o.truth).body, age |-> Unwrap(o.truth).age])
                        ELSE None)

\* C19's case: two requests for one key that both saw a miss, both called
\* the upstream and both completed their set, with different bodies.
C19_Witness ==
    /\ backend = "memory"
    /\ \A h \in Handlers :
          /\ Stamped(h, "MISS") /\ task[h].sets = 1
          /\ ~IsSome(Unwrap(task[h].look).entry)
    /\ UriOf(1) = UriOf(2)
    /\ Unwrap(task[1].fetched).body # Unwrap(task[2].fetched).body

\* C20: whatever runtime error occurs (a handler's error, an error serving
\* or accepting a connection) the accept loop keeps running.
C20_AcceptLoopKeepsRunning == listener = "accepting"

\* C21: the shape of the upstream URL is checked at startup: a configuration
\* whose upstream.url does not parse as a URI, or has no host or no authority,
\* fails to load, so that no request meets a URL error or a failed host or
\* authority assertion.
C21_UpstreamUrlCheckedAtStartup ==
    /\ boot.phase \in {"loaded", "served"} =>
          /\ IsSome(UriParse(boot.url))
          /\ IsSome(Unwrap(UriParse(boot.url)).host)
          /\ IsSome(Unwrap(UriParse(boot.url)).authority)
    /\ boot.phase = "served" /\ IsSome(boot.parsed) /\ Unwrap(boot.parsed).kind # "panic" =>
          boot.outcome = "ok"

\* C22: a duration that does not parse is fatal when the configuration is
\* loaded and never met by a request: every configuration that is loaded holds
\* its durations parsed, and no request is handled by parsing a duration string
\* or by putting a fallback duration in the place of an unparsable one.
C22_DurationErrorsFatalAtLoad ==
    /\ boot.phase = "loaded" => IsSome(boot.default_ttl)
    /\ boot.phase = "served" => ~boot.fallback

\* An unsigned base-10 integer followed by at most one unit letter of s, m, h, d.
DurationNumber(s) ==
    IF s # <<>> /\ s[Len(s)] \in {"s", "m", "h", "d"} THEN SubSeq(s, 1, Len(s) - 1) ELSE s
DurationUnit(s) ==
    IF s # <<>> /\ s[Len(s)] \in {"s", "m", "h", "d"} THEN s[Len(s)] ELSE "s"
DurationWellFormed(s) ==
    /\ DurationNumber(s) # <<>>
    /\ \A i \in 1..Len(DurationNumber(s)) : IsDigit(DurationNumber(s)[i])
DurationSeconds(s) ==
    DigitsValue(DurationNumber(s))
      * (IF DurationUnit(s) = "s" THEN 1 ELSE IF DurationUnit(s) = "m" THEN 60
         ELSE IF DurationUnit(s) = "h" THEN 3600 ELSE 86400)

\* C23: the duration parser gives n seconds, n*60, n*3600 or n*86400 for an
\* integer n with no unit or s, with m, h or d; it gives an error, never a
\* value, a panic or a wrapped-around product, for an empty input, a
\* non-numeric prefix, another unit such as ms, and a product that does not
\* fit the seconds range.  (Inputs with whitespace are only required not to
\* panic.)
C23_DurationParser ==
    IsSome(boot.parsed) =>
        LET r == Unwrap(boot.parsed)
            s == boot.ttl_str
        IN /\ r.kind # "panic"
           /\ (\A i \in 1..Len(s) : s[i] # " ") =>
                 IF DurationWellFormed(s) /\ DurationSeconds(s) < Word
                 THEN r = DurationOk(DurationSeconds(s), 0)
                 ELSE r.kind = "err"

\* The path and query of a request target as one string, "/" for none.
PathAndQueryOf(req) ==
    IF req.path = <<>> THEN <<"/">>
    ELSE IF IsSome(req.query) THEN req.path \o <<"?", Unwrap(req.query)>>
    ELSE req.path

\* C24: the cache key of a request is its path-and-query, "/" when it has
\* none, as written.  A lookup is answered from the cache exactly when an
\* entry is stored under the path-and-query of the request, whatever the
\* method, headers and body of the request that stored it and of this one:
\* requests that differ in these share the entry, requests that differ in the
\* query or in the case of the path do not.  A set stores under the
\* path-and-query of its request and touches no other key.  Bypass is decided
\* by the path, whatever the query.
C24_KeyIsPathAndQuery ==
    [][/\ \A h \in Handlers, req \in KeyRequests :
             CacheGet(h, req)
             => /\ task'[h].pc = "done" <=> IsSome(cache[PathAndQueryOf(req)])
                /\ ~IsBypass(find_rule(compiled_rules, req.path))
                /\ \A r2 \in KeyRequests :
                      r2.path = req.path => ENABLED CacheGet(h, r2)
       /\ \A h \in Handlers, req \in KeyRequests :
             BypassRequest(h, req)
             => \A r2 \in KeyRequests : r2.path = req.path => ENABLED BypassRequest(h, r2)
       /\ \A h \in Handlers :
             CacheSet(h)
             => /\ IsSome(cache'[PathAndQueryOf(UriOf(h))])
                /\ \A k \in DOMAIN cache :
                      k # PathAndQueryOf(UriOf(h)) => cache'[k] = cache[k]]_vars

\* C24's case: a GET of /a answered MISS beside a POST of /a answered HIT.
C24_Witness ==
    \E h1, h2 \in Handlers :
        /\ Stamped(h1, "MISS") /\ UriOf(h1) = Request("GET", PathA, None, "h1", "")
        /\ Stamped(h2, "HIT") /\ UriOf(h2) = Request("POST", PathA, None, "h1", "")

\* C25: a lookup that meets a stored entry is answered HIT exactly when the
\* entry's age, measured from the set that stored it, is at most ttl (age 0
\* and age = ttl included); with an age beyond ttl the request is never
\* answered HIT and goes on to the upstream call.
C25_FreshnessBoundary ==
    \A h \in Handlers :
        (Proxied(h) /\ IsSome(task[h].look) /\ IsSome(Unwrap(task[h].look).truth))
        => LET age == Unwrap(Unwrap(task[h].look).truth).age
           IN /\ Stamped(h, "HIT") <=> age <= task[h].ttl
              /\ age > task[h].ttl => (task[h].pc = "upstream" \/ task[h].calls >= 1)

\* C26: on the in-memory backend with metrics enabled, whenever no handler
\* is between its set and the publication of the gauge, the cache_entries
\* gauge is the number of entries in the storage.
C26_GaugeIsExactSize ==
    (backend = "memory" /\ prometheus_enabled
       /\ \A h \in Handlers : task[h].pc \notin {"size", "gauge"})
    => metrics.cache_entries = MemorySize(cache)

\* C27: with metrics enabled the counters are ordered, cache_stale_served <=
\* upstream_errors <= cache_misses, and cache_hits + cache_misses is the
\* number of requests, neither bypassed nor for "/metrics", that have passed
\* the cache lookup.
C27_CountersOrdered ==
    /\ metrics.cache_stale_served <= metrics.upstream_errors
    /\ metrics.upstream_errors <= metrics.cache_misses
    /\ (prometheus_enabled /\ AllVisible)
       => metrics.cache_hits + metrics.cache_misses
            = Cardinality({ h \in Handlers : Cached(h) })

\* C27's case: a MISS and then a STALE answer after a failed upstream call,
\* beside a bypassed or "/metrics" request in other runs.
C27_Witness ==
    /\ prometheus_enabled /\ AllVisible
    /\ \E h \in Handlers : Stamped(h, "STALE")
    /\ metrics.cache_stale_served = 1 /\ metrics.upstream_errors = 1
    /\ metrics.cache_misses = 2

\* A task that has written the storage is on the MISS path: past a successful
\* upstream fetch, on its way to the MISS answer or there.
OnMissPath(t) ==
    t.sets > 0 => /\ IsSome(t.fetched) /\ ~IsSome(t.fail) /\ ~IsSome(t.stale)
                  /\ t.pc \in {"size", "gauge", "done"}
                  /\ t.pc = "done" => (Unwrap(t.resp).kind = "ok"
                                          /\ Unwrap(t.resp).xcache = Some("MISS"))

\* C28: the storage is written by the MISS path only: every step that
\* changes the in-memory map or the external store is the set of a handler
\* that has fetched a body from the upstream and goes on to answer MISS; the
\* steps of HIT, STALE, upstream-error, bypass and "/metrics" requests leave
\* it as it is.  No step removes a key, and the in-memory size never decreases.
C28_OnlyMissWrites ==
    [][/\ (cache' # cache \/ redis' # redis)
            => \E h \in Handlers : CacheSet(h) /\ IsSome(task[h].fetched)
       /\ \A k \in DOMAIN cache : IsSome(cache[k]) => IsSome(cache'[k])
       /\ \A k \in DOMAIN redis : IsSome(redis[k]) => IsSome(redis'[k])
       /\ MemorySize(cache') >= MemorySize(cache)
       /\ \A h \in Handlers : OnMissPath(task'[h])]_vars

\* C28's case: a request answered MISS has stored its body, and a request
\* answered STALE beside it has left the storage alone.
C28_Witness ==
    \E h1, h2 \in Handlers :
        /\ Stamped(h1, "MISS") /\ task[h1].sets = 1
        /\ Stamped(h2, "STALE") /\ task[h2].sets = 0
        /\ (MemorySize(cache) = 1 \/ IsSome(redis[<<generate_cache_key(UriOf(h1)), "body">>]))

\* C29: under any interleaving of sets and gets for one key on the external
\* store, a get that returns a value returns the body and the age that one
\* set wrote, and returns no value while one of the two logical keys is
\* unwritten.
C29_RedisPairing ==
    \A h \in Handlers :
        IsSome(pipe.conn[h].result)
        => /\ IsSome(pipe.conn[h].got_body) /\ IsSome(pipe.conn[h].got_age)
           /\ <<Unwrap(pipe.conn[h].got_body), Unwrap(pipe.conn[h].got_age)>> \in pipe.sets

\* C30: every body stored under a key, and every body answered for a request
\* of that key, is a body the upstream returned for that path-and-query: a
\* body answered as HIT is one that a set, called with the body fetched for
\* the key, has stored.
C30_CacheIntegrity ==
    \A h \in Handlers :
        IsSome(pipe.conn[h].served)
        => \E p \in pipe.sets : p[1] = Unwrap(pipe.conn[h].served)

TypeOK ==
    /\ clock \in 0..MaxTime
    /\ nreq \in 0..Budget
    /\ \A h \in Handlers : task[h].pc \in
          {"idle", "upstream", "stale_get", "set", "size", "gauge", "done"}

====
